---- MODULE Spec2Model ----
(***************************************************************************)
(* Model of tools/build_logos.py: the RGB565 pixel encoder                  *)
(* (rgb_to_rgb565, image_to_rgb565_blob) and the fetch/convert/write loop   *)
(* of main.                                                                 *)
(*                                                                          *)
(* Two state machines share the module's variables:                         *)
(*   SpecBlob  - image_to_rgb565_blob applied to a resized RGBA bitmap;     *)
(*   Spec      - main's loop over the airline catalog (FairSpec adds the    *)
(*               fairness of a sequential program that keeps running).      *)
(*                                                                          *)
(* Pillow's decode and Lanczos resize are library code: their result is an  *)
(* arbitrary width x height RGBA bitmap, which is what the models draw.     *)
(***************************************************************************)
EXTENDS Integers, Sequences, FiniteSets

VARIABLES
    width,          \* args.width / parameter width
    height,         \* args.height / parameter height
    pixels,         \* image_to_rgb565_blob: the resized bitmap, pixels[<<x, y>>] = <<r, g, b, a>>
    blob,           \* image_to_rgb565_blob: the returned bytes
    epc,            \* image_to_rgb565_blob: "idle" | "call" | "returned"
    skip_existing,  \* args.skip_existing
    files,          \* the output directory: entry index -> bytes of {ICAO}.bin, for the files that exist
    idx,            \* main: position in AIRLINE_LIST (1-based, as enumerate(start=1))
    pc,             \* main: "idle" | "loop" (top of the for loop) | "fetched" | "done"
    png_bytes,      \* main: result of fetch_logo_png for the current entry
    success,        \* main: counter
    skipped,        \* main: counter
    failed,         \* main: counter
    failed_list,    \* main: entries recorded as failed, in order
    trace           \* main: what the run has done so far: its per-entry prints, GETs, writes and sleeps

vars == <<width, height, pixels, blob, epc, skip_existing, files, idx, pc,
          png_bytes, success, skipped, failed, failed_list, trace>>

encoderVars == <<pixels, blob, epc>>
mainVars == <<skip_existing, files, idx, pc, png_bytes, success, skipped,
              failed, failed_list, trace>>

(***************************************************************************)
(* Bounds of the model.                                                     *)
(***************************************************************************)
MaxDim == 2         \* encoder: width and height range over 0..MaxDim
ChanEdge == 8       \* probe pixels: channel values within ChanEdge of 0 and of 255
AlphaSpan == 2      \* probe pixels: alpha values within AlphaSpan of the threshold
NumAirlines == 3    \* main: length of the catalog
MaxRunDim == 1      \* main: --width and --height range over 0..MaxRunDim
StaleLen == 2       \* main: length of a file left in the output directory by an earlier run

(***************************************************************************)
(* Program constants.                                                       *)
(***************************************************************************)
TRANSPARENT_RGB565 == 63519     \* 0xF81F
ALPHA_THRESHOLD == 16           \* the literal in "if a < 16"
OFF_MAGENTA == 63520            \* 0xF820, the literal that replaces a colliding value

(***************************************************************************)
(* Bit operations on naturals.                                              *)
(***************************************************************************)
RECURSIVE Pow2(_)
Pow2(n) == IF n = 0 THEN 1 ELSE 2 * Pow2(n - 1)

Shr(v, n) == v \div Pow2(n)
Shl(v, n) == v * Pow2(n)
Mask(v, bits) == v % Pow2(bits)

\* a | b for fields that do not overlap is their sum; the fields packed below
\* are masked to 5, 6 and 5 bits and shifted to 11, 5 and 0.
\* r5 = (r >> 3) & 0x1F; g6 = (g >> 2) & 0x3F; b5 = (b >> 3) & 0x1F
rgb_to_rgb565(r, g, b) ==
    Shl(Mask(Shr(r, 3), 5), 11) + Shl(Mask(Shr(g, 2), 6), 5) + Mask(Shr(b, 3), 5)

\* Variant: the division by 255 written as a shift by 8.
premultiply_shift8(c, a) == (c * a) \div 256

\* int(c * a / 255): c * a <= 65025 is exact in a double, the quotient is
\* correctly rounded and never crosses an integer, so truncation is floor.
premultiply(c, a) == (c * a) \div 255

\* Variant: only alpha 0 counts as transparent.
pixel16_no_threshold(px) ==
    IF px[4] = 0
    THEN TRANSPARENT_RGB565
    ELSE LET p == rgb_to_rgb565(premultiply(px[1], px[4]),
                                premultiply(px[2], px[4]),
                                premultiply(px[3], px[4]))
         IN  IF p = TRANSPARENT_RGB565 THEN OFF_MAGENTA ELSE p

\* Variant: the quantised value is stored without the collision test.
pixel16_no_collision_check(px) ==
    IF px[4] < ALPHA_THRESHOLD
    THEN TRANSPARENT_RGB565
    ELSE rgb_to_rgb565(premultiply(px[1], px[4]),
                       premultiply(px[2], px[4]),
                       premultiply(px[3], px[4]))

\* The body of the pixel loop: the 16-bit value of one RGBA pixel.
pixel16(px) ==
    IF px[4] < ALPHA_THRESHOLD
    THEN TRANSPARENT_RGB565
    ELSE LET p == rgb_to_rgb565(premultiply(px[1], px[4]),
                                premultiply(px[2], px[4]),
                                premultiply(px[3], px[4]))
         IN  IF p = TRANSPARENT_RGB565 THEN OFF_MAGENTA ELSE p

\* Variant: struct.pack('>H', v)
pack_H_big_endian(v) == <<v \div 256, v % 256>>

\* struct.pack('<H', v)
pack_H(v) == <<v % 256, v \div 256>>

\* Variant: for x in range(width - 1)
RECURSIVE row_loop_short(_, _, _, _, _)
row_loop_short(px, w, y, x, acc) ==
    IF x >= w - 1
    THEN acc
    ELSE row_loop_short(px, w, y, x + 1, acc \o pack_H(pixel16(px[<<x, y>>])))

\* for x in range(width): ... blob += struct.pack('<H', pixel16)
RECURSIVE row_loop(_, _, _, _, _)
row_loop(px, w, y, x, acc) ==
    IF x >= w
    THEN acc
    ELSE row_loop(px, w, y, x + 1, acc \o pack_H(pixel16(px[<<x, y>>])))

\* for y in range(height): ...
RECURSIVE rows_loop(_, _, _, _, _)
rows_loop(px, w, h, y, acc) ==
    IF y >= h
    THEN acc
    ELSE rows_loop(px, w, h, y + 1, row_loop(px, w, y, 0, acc))

image_to_rgb565_blob(px, w, h) == rows_loop(px, w, h, 0, <<>>)

(***************************************************************************)
(* Inputs.                                                                  *)
(***************************************************************************)
Coords(w, h) == (0 .. w - 1) \X (0 .. h - 1)

\* A transparent pixel that still carries colour, opaque magenta (the value
\* that collides with the sentinel), and a half-transparent colour.
CorePixels == { <<255, 0, 255, 8>>, <<255, 0, 255, 255>>, <<10, 200, 30, 128>> }

Channels == (0 .. ChanEdge) \cup ((255 - ChanEdge) .. 255)
Alphas == {0, 128}
          \cup ((ALPHA_THRESHOLD - AlphaSpan) .. (ALPHA_THRESHOLD + AlphaSpan))
          \cup ((255 - ChanEdge) .. 255)

\* Probe pixels: the corners of the colour cube around the quantisation steps,
\* the whole grey axis and the whole red axis, each at every probe alpha.
ProbePixels ==
    (Channels \X Channels \X Channels \X Alphas)
    \cup { <<c, c, c, a>> : c \in 0 .. 255, a \in Alphas }
    \cup { <<c, 0, 0, a>> : c \in 0 .. 255, a \in Alphas }

Bitmaps(w, h) ==
    [Coords(w, h) -> CorePixels]
    \cup (IF w = 1 /\ h = 1 THEN [Coords(1, 1) -> ProbePixels] ELSE {})

NoBitmap == [c \in {} |-> <<0, 0, 0, 0>>]

(***************************************************************************)
(* SpecBlob: image_to_rgb565_blob on every bounded input.                   *)
(***************************************************************************)
MainIdle ==
    /\ skip_existing = FALSE
    /\ files = [i \in {} |-> <<>>]
    /\ idx = 0
    /\ pc = "idle"
    /\ png_bytes = <<"None">>
    /\ success = 0
    /\ skipped = 0
    /\ failed = 0
    /\ failed_list = <<>>
    /\ trace = <<>>

InitBlob ==
    /\ width \in 0 .. MaxDim
    /\ height \in 0 .. MaxDim
    /\ pixels \in Bitmaps(width, height)
    /\ blob = <<>>
    /\ epc = "call"
    /\ MainIdle

Encode ==
    /\ epc = "call"
    /\ blob' = image_to_rgb565_blob(pixels, width, height)
    /\ epc' = "returned"
    /\ UNCHANGED <<width, height, pixels>>
    /\ UNCHANGED mainVars

NextBlob == Encode

SpecBlob == InitBlob /\ [][NextBlob]_vars

(***************************************************************************)
(* Spec: main's loop over the catalog.                                      *)
(*                                                                          *)
(* The catalog is AIRLINE_LIST cut to NumAirlines entries; its ICAO codes   *)
(* are pairwise distinct, so an entry's index names its output file.       *)
(* Init is the state after argument parsing and out_dir.mkdir.              *)
(***************************************************************************)
Entries == 1 .. NumAirlines

None == <<"None">>
Bytes == <<"bytes">>

\* What an earlier run, possibly of another size, left in the directory.
PriorContent == [i \in 1 .. StaleLen |-> i]

\* The bitmaps a downloaded logo may decode and resize to.
RunPixels == { <<255, 0, 255, 8>>, <<255, 0, 255, 255>> }
RunImages(w, h) == { [c \in Coords(w, h) |-> p] : p \in RunPixels }

expected_bytes == width * height * 2

\* Variant: the file opened for appending.
WriteFile_append(f, i, data) ==
    [j \in DOMAIN f \cup {i} |->
        IF j = i THEN (IF i \in DOMAIN f THEN f[i] \o data ELSE data) ELSE f[j]]

\* out_path.write_bytes(data) having succeeded: the file holds data alone
WriteFile(f, i, data) ==
    [j \in DOMAIN f \cup {i} |-> IF j = i THEN data ELSE f[j]]

Init ==
    /\ width \in 0 .. MaxRunDim
    /\ height \in 0 .. MaxRunDim
    /\ pixels = NoBitmap
    /\ blob = <<>>
    /\ epc = "idle"
    /\ skip_existing \in BOOLEAN
    /\ files \in UNION { [S -> {PriorContent}] : S \in SUBSET Entries }
    /\ idx = 1
    /\ pc = "loop"
    /\ png_bytes = None
    /\ success = 0
    /\ skipped = 0
    /\ failed = 0
    /\ failed_list = <<>>
    /\ trace = <<>>

\* Variant: the flag is not consulted.
ShouldSkip_ignores_flag == idx \in DOMAIN files

\* if args.skip_existing and out_path.exists()
ShouldSkip == skip_existing /\ idx \in DOMAIN files

\* print "skipped (exists)"; skipped += 1; continue
SkipEntry ==
    /\ pc = "loop"
    /\ idx <= NumAirlines
    /\ ShouldSkip
    /\ trace' = Append(trace, <<"skipped", idx>>)
    /\ skipped' = skipped + 1
    /\ idx' = idx + 1
    /\ UNCHANGED <<width, height, encoderVars, skip_existing, files, pc,
                   png_bytes, success, failed, failed_list>>

\* png_bytes = fetch_logo_png(...): one requests.get; the bytes on a 200 with
\* an image content type, None on any other response or a RequestException.
FetchLogo ==
    /\ pc = "loop"
    /\ idx <= NumAirlines
    /\ ~ShouldSkip
    /\ \E r \in {None, Bytes} : png_bytes' = r
    /\ trace' = Append(trace, <<"GET", idx>>)
    /\ pc' = "fetched"
    /\ UNCHANGED <<width, height, encoderVars, skip_existing, files, idx,
                   success, skipped, failed, failed_list>>

\* The end of an iteration that failed: the entry is counted and recorded,
\* then time.sleep(REQUEST_DELAY_S) and the next entry.
FailIteration(events, why) ==
    /\ failed' = failed + 1
    /\ failed_list' = Append(failed_list, idx)
    /\ trace' = trace \o events \o << <<why, idx>>, <<"sleep", idx>> >>
    /\ idx' = idx + 1
    /\ pc' = "loop"
    /\ png_bytes' = None
    /\ UNCHANGED <<width, height, encoderVars, skip_existing, success, skipped>>

\* Variant: continue without the sleep.
NoLogo_no_sleep ==
    /\ pc = "fetched"
    /\ png_bytes = None
    /\ failed' = failed + 1
    /\ failed_list' = Append(failed_list, idx)
    /\ trace' = Append(trace, <<"FAILED (no logo)", idx>>)
    /\ idx' = idx + 1
    /\ pc' = "loop"
    /\ UNCHANGED <<width, height, encoderVars, skip_existing, success, skipped,
                   png_bytes, files>>

\* if png_bytes is None: failed += 1; failed_list.append; sleep; continue
NoLogo ==
    /\ pc = "fetched"
    /\ png_bytes = None
    /\ FailIteration(<<>>, "FAILED (no logo)")
    /\ UNCHANGED files

\* Variant: the exception leaves the loop.
ConvertFails_aborts ==
    /\ pc = "fetched"
    /\ png_bytes # None
    /\ pc' = "aborted"
    /\ UNCHANGED <<width, height, encoderVars, skip_existing, files, idx,
                   png_bytes, success, skipped, failed, failed_list, trace>>

\* The try block raising before the write: Image.open on bytes that are no
\* image, the resize, or the assertion on the blob's length.
ConvertFails ==
    /\ pc = "fetched"
    /\ png_bytes # None
    /\ \/ TRUE
       \/ \E img \in RunImages(width, height) :
             Len(image_to_rgb565_blob(img, width, height)) # expected_bytes
    /\ FailIteration(<<>>, "FAILED (exception)")
    /\ UNCHANGED files

\* The try block running to its end: the blob is written, success += 1, sleep.
ConvertWrites ==
    /\ pc = "fetched"
    /\ png_bytes # None
    /\ \E img \in RunImages(width, height) :
          LET data == image_to_rgb565_blob(img, width, height)
          IN  /\ Len(data) = expected_bytes
              /\ files' = WriteFile(files, idx, data)
    /\ success' = success + 1
    /\ trace' = trace \o << <<"write", idx>>, <<"OK", idx>>, <<"sleep", idx>> >>
    /\ idx' = idx + 1
    /\ pc' = "loop"
    /\ png_bytes' = None
    /\ UNCHANGED <<width, height, encoderVars, skip_existing, skipped, failed,
                   failed_list>>

\* out_path.write_bytes raising: the file could not be opened (it is as it
\* was), or it was truncated and only a proper prefix of the blob arrived.
WriteFails ==
    /\ pc = "fetched"
    /\ png_bytes # None
    /\ \E img \in RunImages(width, height) :
          LET data == image_to_rgb565_blob(img, width, height)
          IN  /\ Len(data) = expected_bytes
              /\ \/ files' = files
                 \/ \E k \in 0 .. Len(data) - 1 :
                       files' = WriteFile(files, idx, SubSeq(data, 1, k))
    /\ FailIteration(<< <<"write", idx>> >>, "FAILED (exception)")

\* The loop is exhausted: the summary is printed.
Summary ==
    /\ pc = "loop"
    /\ idx > NumAirlines
    /\ pc' = "done"
    /\ UNCHANGED <<width, height, encoderVars, skip_existing, files, idx,
                   png_bytes, success, skipped, failed, failed_list, trace>>

Next ==
    \/ SkipEntry
    \/ FetchLogo
    \/ NoLogo
    \/ ConvertFails
    \/ ConvertWrites
    \/ WriteFails
    \/ Summary

Spec == Init /\ [][Next]_vars

\* A sequential program whose every call returns keeps taking steps.
FairSpec == Spec /\ WF_vars(Next)

(***************************************************************************)
(* Reading the returned blob.                                               *)
(***************************************************************************)
\* Offset (0-based) of the first byte of the pixel at column c[1], row c[2].
Offset(c) == 2 * (c[2] * width + c[1])

\* The 16-bit value stored for the pixel at c, read little-endian.
Word(c) == blob[Offset(c) + 1] + 256 * blob[Offset(c) + 2]

\* The quantised value of the unmodified channels, written out arithmetically.
Quantised(px) == (px[1] \div 8) * 2048 + (px[2] \div 4) * 32 + (px[3] \div 8)

\* The quantised value of the channels blended onto black.
Blended(px) ==
    Quantised(<<(px[1] * px[4]) \div 255, (px[2] * px[4]) \div 255,
                (px[3] * px[4]) \div 255, px[4]>>)

\* Bit n of v.
Bit(v, n) == (v \div Pow2(n)) % 2

Returned == epc = "returned"

\* C1: for every resized bitmap and every width, height >= 0 the returned blob
\* has exactly width * height * 2 bytes, so main's assertion cannot fail.
C1_BlobLength ==
    Returned => Len(blob) = width * height * 2

C1_Witness ==
    /\ Returned
    /\ width >= 2
    /\ height >= 2
    /\ Len(blob) = width * height * 2

\* C2: every pixel with alpha below the threshold is stored as the sentinel
\* 0xF81F whatever its colour; an all-transparent bitmap gives an all-sentinel
\* blob.
C2_TransparentIsSentinel ==
    Returned =>
        /\ \A c \in Coords(width, height) :
              pixels[c][4] < 16 => Word(c) = 63519
        /\ (\A c \in Coords(width, height) : pixels[c][4] < 16)
              => \A i \in 1 .. Len(blob) :
                    blob[i] = (IF i % 2 = 1 THEN 31 ELSE 248)

C2_Witness ==
    /\ Returned
    /\ width = 2
    /\ height = 2
    /\ \A c \in Coords(2, 2) : pixels[c] = <<255, 0, 255, 8>>
    /\ blob = <<31, 248, 31, 248, 31, 248, 31, 248>>

\* C3: a stored value is the sentinel 0xF81F exactly when the pixel's alpha is
\* below 16; no pixel with alpha >= 16 is ever stored as the sentinel.
C3_SentinelIffTransparent ==
    Returned =>
        \A c \in Coords(width, height) :
            (Word(c) = 63519) <=> (pixels[c][4] < 16)

C3_Witness ==
    /\ Returned
    /\ \E c \in Coords(width, height) :
          /\ pixels[c][4] >= 16
          /\ Blended(pixels[c]) = 63519
          /\ Word(c) # 63519

\* C4: when the quantised value of a pixel with alpha >= 16 is the sentinel,
\* the stored value differs from 0xF81F in exactly one bit, that bit is in the
\* blue field (bits 0..4), and the red and green fields are as quantised.
C4_OneBlueBit ==
    Returned =>
        \A c \in Coords(width, height) :
            (pixels[c][4] >= 16 /\ Blended(pixels[c]) = 63519) =>
                /\ Cardinality({n \in 0 .. 15 : Bit(Word(c), n) # Bit(63519, n)}) = 1
                /\ \A n \in 5 .. 15 : Bit(Word(c), n) = Bit(63519, n)

\* C5: the blob is row-major and little-endian: the pixel at column x, row y
\* with value v has v mod 256 at byte 2*(y*W + x) and v div 256 at the next.
C5_RowMajorLittleEndian ==
    Returned =>
        \A x \in 0 .. width - 1 : \A y \in 0 .. height - 1 :
            /\ blob[2 * (y * width + x) + 1] = pixel16(pixels[<<x, y>>]) % 256
            /\ blob[2 * (y * width + x) + 2] = pixel16(pixels[<<x, y>>]) \div 256

C5_Witness ==
    /\ Returned
    /\ width = 2
    /\ height = 2
    /\ pixels[<<1, 0>>] = <<10, 200, 30, 128>>
    /\ pixels[<<0, 1>>] = <<255, 0, 255, 255>>
    /\ SubSeq(blob, 3, 4) = <<33, 3>>
    /\ SubSeq(blob, 5, 6) = <<32, 248>>

\* C6: at alpha 255 the premultiply leaves every channel unchanged, so the
\* stored value is (r >> 3) << 11 | (g >> 2) << 5 | (b >> 3) of the unmodified
\* channels unless that is the sentinel; opaque pure red is stored as 0xF800.
C6_OpaqueIsPlainQuantisation ==
    Returned =>
        \A c \in Coords(width, height) :
            pixels[c][4] = 255 =>
                /\ \A k \in 1 .. 3 : premultiply(pixels[c][k], 255) = pixels[c][k]
                /\ Quantised(pixels[c]) # 63519 => Word(c) = Quantised(pixels[c])
                /\ pixels[c] = <<255, 0, 0, 255>> => Word(c) = 63488

C6_Witness ==
    /\ Returned
    /\ width = 1
    /\ height = 1
    /\ pixels[<<0, 0>>] = <<255, 0, 0, 255>>
    /\ blob = <<0, 248>>

(***************************************************************************)
(* Reading the run's trace.                                                 *)
(***************************************************************************)
Count(what, i) == Cardinality({k \in 1 .. Len(trace) : trace[k] = <<what, i>>})
Did(what, i) == \E k \in 1 .. Len(trace) : trace[k] = <<what, i>>
Occurrences(seq, i) == Cardinality({k \in 1 .. Len(seq) : seq[k] = i})
Finished == pc = "done"

\* C7: a fetch without an image, or an exception in decode, convert or write,
\* never aborts the run: the entry adds one to failed and is appended once to
\* failed_list, the loop goes on to the next entry, and the run always reaches
\* the summary with success + skipped + failed = number of entries and
\* len(failed_list) = failed.
C7_FailuresNeverAbort ==
    /\ [][(pc = "fetched" /\ (png_bytes = None \/ success' = success)) =>
             /\ failed' = failed + 1
             /\ failed_list' = Append(failed_list, idx)
             /\ idx' = idx + 1
             /\ pc' = "loop"]_vars
    /\ [](\A i \in Entries : Occurrences(failed_list, i) <= 1)
    /\ [](Finished => /\ success + skipped + failed = NumAirlines
                      /\ Len(failed_list) = failed
                      /\ \A i \in Entries :
                            Did("skipped", i) \/ Did("GET", i))
    /\ <>Finished

C7_Witness ==
    /\ Finished
    /\ Did("FAILED (no logo)", 1)
    /\ Did("FAILED (exception)", 2)
    /\ Did("OK", 3)
    /\ failed_list = <<1, 2>>
    /\ success = 1

\* C8 as claimed: after a complete run every output file of a catalog entry
\* has exactly width * height * 2 bytes, whatever the skip-existing setting,
\* the directory's prior contents and the fetch and convert outcomes.
C8_EveryFileHasRunSize ==
    Finished => \A i \in DOMAIN files : Len(files[i]) = expected_bytes

\* C8 amended: after a complete run the output file of every entry the run
\* reported OK exists and has exactly width * height * 2 bytes, and the file
\* of an entry that was skipped or whose fetch failed is as it was before.
C8_WrittenFilesHaveRunSize ==
    Finished =>
        \A i \in Entries :
            /\ Did("OK", i) => (i \in DOMAIN files /\ Len(files[i]) = expected_bytes)
            /\ (Did("skipped", i) \/ Did("FAILED (no logo)", i)) =>
                  (i \in DOMAIN files => files[i] = PriorContent)

C8_Witness ==
    /\ Finished
    /\ expected_bytes # StaleLen
    /\ Did("OK", 1)
    /\ Did("FAILED (no logo)", 2)
    /\ 1 \in DOMAIN files
    /\ 2 \in DOMAIN files
    /\ Len(files[1]) = expected_bytes
    /\ files[2] = PriorContent

\* C9: one GET per entry that is not skipped, never a second one, and between
\* any two consecutive GETs at least one sleep, whichever way the earlier
\* iteration ended.
C9_OneRequestThenDelay ==
    /\ \A i \in Entries : Count("GET", i) <= 1
    /\ \A i \in Entries : Did("GET", i) => ~Did("skipped", i)
    /\ Finished => \A i \in Entries : ~Did("skipped", i) => Count("GET", i) = 1
    /\ \A j \in 1 .. Len(trace) : \A k \in 1 .. Len(trace) :
          (j < k /\ trace[j][1] = "GET" /\ trace[k][1] = "GET") =>
              \E m \in j + 1 .. k - 1 : trace[m][1] = "sleep"

C9_Witness ==
    /\ Did("FAILED (no logo)", 1)
    /\ Did("FAILED (exception)", 2)
    /\ Did("OK", 3)
    /\ Finished
    /\ Count("sleep", 1) = 1
    /\ Count("sleep", 2) = 1
    /\ Count("sleep", 3) = 1

\* C10: with --skip-existing set, an entry whose file exists when the loop
\* reaches it causes no GET, no sleep and no write; its file is unchanged,
\* skipped grows by one, success, failed and failed_list stay; without
\* --skip-existing nothing is ever counted as skipped.
C10_SkipTouchesNothing ==
    /\ [][(pc = "loop" /\ idx <= NumAirlines /\ skip_existing
              /\ idx \in DOMAIN files) =>
             /\ files' = files
             /\ skipped' = skipped + 1
             /\ success' = success
             /\ failed' = failed
             /\ failed_list' = failed_list
             /\ trace' = Append(trace, <<"skipped", idx>>)
             /\ idx' = idx + 1]_vars
    /\ [](~skip_existing => /\ skipped = 0
                            /\ \A i \in Entries : ~Did("skipped", i))

C10_Witness ==
    /\ skip_existing
    /\ Finished
    /\ Did("skipped", 2)
    /\ Did("OK", 1)
    /\ skipped = 1
    /\ 2 \in DOMAIN files
    /\ files[2] = PriorContent

====
